---- MODULE Spec2Model ----
(***************************************************************************)
(* A model of src/src/lib.rs of wasm-car-simulator: the per-tick vehicle   *)
(* transition `update`, the constructors State::new / State::default /     *)
(* Camera::new and the camera projection Camera::project.                  *)
(*                                                                         *)
(* Every field is a Rust i32.  The model keeps the 32-bit width: the       *)
(* arithmetic operators below compute the two's complement result of the   *)
(* wrapping build (overflow-checks off, the release profile) and say when  *)
(* the exact result does not fit, which is when the checking build         *)
(* (overflow-checks on, the dev/test profile) panics.  Which of the two    *)
(* the build is, is the variable overflow_checks, chosen once in Init.     *)
(* No intermediate value of the model leaves the i32 range.                *)
(***************************************************************************)
EXTENDS Integers, Sequences, FiniteSets

VARIABLES
    state,            \* the State value the host currently owns
    hist,             \* the states passed to update so far, oldest first
    thr,              \* the throttles passed to update so far, oldest first
    status,           \* "running", or "panicked" once a call has panicked
    overflow_checks,  \* TRUE: the build panics on i32 overflow; FALSE: it wraps
    camera,           \* the Camera value the host owns
    projected         \* the last project call: <<>> before any, else one record
                      \* of the camera and the argument passed and the outcome

vars == <<state, hist, thr, status, overflow_checks, camera, projected>>

(***************************************************************************)
(* i32 arithmetic                                                          *)
(***************************************************************************)
I32_MAX == 2147483647

I32_MIN == -2147483647 - 1

\* a + b does not fit in an i32
AddOverflows(a, b) ==
    \/ b > 0 /\ a > I32_MAX - b
    \/ b < 0 /\ a < I32_MIN - b

\* a + b of the wrapping build: the exact sum reduced modulo 2^32 into the i32 range
wrapping_add(a, b) ==
    IF b > 0 /\ a > I32_MAX - b
    THEN I32_MIN + ((a - I32_MAX) + (b - 1))
    ELSE IF b < 0 /\ a < I32_MIN - b
    THEN I32_MAX + ((a - I32_MIN) + (b + 1))
    ELSE a + b

\* a - b does not fit in an i32
SubOverflows(a, b) ==
    \/ b > 0 /\ a < I32_MIN + b
    \/ b < 0 /\ a > I32_MAX + b

\* a - b of the wrapping build
wrapping_sub(a, b) ==
    IF b = I32_MIN
    THEN wrapping_add(wrapping_add(a, I32_MAX), 1)
    ELSE wrapping_add(a, -b)

\* a / b of Rust, b # 0 and not I32_MIN / -1: the quotient truncated toward zero
TruncDiv(a, b) ==
    IF b > 0
    THEN IF a >= 0 THEN a \div b
         ELSE (a \div b) + (IF a % b # 0 THEN 1 ELSE 0)
    ELSE IF b = I32_MIN
    THEN IF a = I32_MIN THEN 1 ELSE 0
    ELSE IF a >= 0 THEN -(a \div (-b))
    ELSE -((a \div (-b)) + (IF a % (-b) # 0 THEN 1 ELSE 0))

\* a * b does not fit in an i32
MulOverflows(a, b) ==
    IF a = 0 \/ b = 0 THEN FALSE
    ELSE IF a > 0
    THEN IF b > 0 THEN a > TruncDiv(I32_MAX, b) ELSE b < TruncDiv(I32_MIN, a)
    ELSE IF b > 0 THEN a < TruncDiv(I32_MIN, b) ELSE b < TruncDiv(I32_MAX, a)

\* Byte k (0 the lowest) of the two's complement representation of a
Byte(a, k) == (a \div (256 ^ k)) % 256

\* a * b of the wrapping build: the low 32 bits of the product, from the
\* products of the bytes of a and b (schoolbook columns 0..3), as an i32
wrapping_mul(a, b) ==
    LET col(m) == LET term[j \in 0..m] == Byte(a, j) * Byte(b, m - j)
                  IN  IF m = 0 THEN term[0]
                      ELSE IF m = 1 THEN term[0] + term[1]
                      ELSE IF m = 2 THEN term[0] + term[1] + term[2]
                      ELSE term[0] + term[1] + term[2] + term[3]
        low  == col(0) + 256 * col(1)
        high == (low \div 65536) + col(2) + 256 * col(3)
        lo16 == low % 65536
        hi16 == high % 65536
    IN  IF hi16 >= 32768
        THEN (hi16 - 65536) * 65536 + lo16
        ELSE hi16 * 65536 + lo16

\* Ord::clamp for min <= max
clamp(x, min, max) == IF x < min THEN min ELSE IF x > max THEN max ELSE x

(***************************************************************************)
(* The vehicle state                                                       *)
(***************************************************************************)
default ==
    [ acceleration |-> 0,
      speed |-> 0,
      position |-> 0,
      position_goal_start |-> 0,
      position_goal_end |-> 0,
      lost |-> FALSE,
      won |-> FALSE ]

\* Mutant: the vehicle is left at the default position
new_at_default_position ==
    [ default EXCEPT !.position_goal_start = 9000,
                     !.position_goal_end = 10000 ]

new ==
    [ default EXCEPT !.position_goal_start = 9000,
                     !.position_goal_end = 10000,
                     !.position = 500 ]

\* The fields of the state update returns, one per line of its struct
\* expression; each reads current_state (the pre-tick state) and throttle.
\* A sum that overflows has the wrapping build's value here.
\* Mutant: the throttle is added to the previous acceleration
update_acceleration_accumulates(current_state, throttle) ==
    wrapping_add(current_state.acceleration, throttle)

update_acceleration(current_state, throttle) == throttle

\* Mutant: the new speed is computed from the throttle of this call
update_speed_from_throttle(current_state, throttle) ==
    clamp(wrapping_add(current_state.speed, throttle), 0, I32_MAX)

\* Mutant: the throttle of this call is applied on top of the acceleration
update_speed_adds_throttle(current_state, throttle) ==
    clamp(wrapping_add(wrapping_add(current_state.speed, current_state.acceleration),
                       throttle), 0, I32_MAX)

\* Mutant: the clamp is missing
update_speed_unclamped(current_state, throttle) ==
    wrapping_add(current_state.speed, current_state.acceleration)

update_speed(current_state, throttle) ==
    clamp(wrapping_add(current_state.speed, current_state.acceleration), 0, I32_MAX)

\* Mutant: the position advances by the newly computed speed
update_position_by_new_speed(current_state, throttle) ==
    wrapping_add(current_state.position, update_speed(current_state, throttle))

\* Mutant: the speed is subtracted
update_position_backwards(current_state, throttle) ==
    wrapping_sub(current_state.position, current_state.speed)

update_position(current_state, throttle) ==
    wrapping_add(current_state.position, current_state.speed)

\* Mutant: lost is evaluated on the newly computed position
update_lost_on_new_position(current_state, throttle) ==
    wrapping_add(current_state.position, current_state.speed)
        > current_state.position_goal_end

\* Mutant: lost compares with the start of the goal window
update_lost_beyond_goal_start(current_state, throttle) ==
    current_state.position > current_state.position_goal_start

update_lost(current_state, throttle) ==
    current_state.position > current_state.position_goal_end

\* Mutant: the goal window includes its two ends
update_won_inclusive(current_state, throttle) ==
    /\ current_state.speed = 0
    /\ current_state.position >= current_state.position_goal_start
    /\ current_state.position <= current_state.position_goal_end

\* Mutant: won latches once it is true
update_won_sticky(current_state, throttle) ==
    \/ current_state.won
    \/ /\ current_state.speed = 0
       /\ current_state.position > current_state.position_goal_start
       /\ current_state.position < current_state.position_goal_end

\* Mutant: the upper end of the goal window is not tested
update_won_no_upper_bound(current_state, throttle) ==
    /\ current_state.speed = 0
    /\ current_state.position > current_state.position_goal_start

\* Mutant: the vehicle need not be stopped
update_won_while_moving(current_state, throttle) ==
    /\ current_state.position > current_state.position_goal_start
    /\ current_state.position < current_state.position_goal_end

update_won(current_state, throttle) ==
    /\ current_state.speed = 0
    /\ current_state.position > current_state.position_goal_start
    /\ current_state.position < current_state.position_goal_end

\* Mutant: the field is left to ..Default::default()
update_position_goal_start_defaulted(current_state, throttle) ==
    default.position_goal_start

update_position_goal_start(current_state, throttle) ==
    current_state.position_goal_start

update_position_goal_end(current_state, throttle) ==
    current_state.position_goal_end

update(current_state, throttle) ==
    [ default EXCEPT
        !.acceleration = update_acceleration(current_state, throttle),
        !.speed = update_speed(current_state, throttle),
        !.position = update_position(current_state, throttle),
        !.lost = update_lost(current_state, throttle),
        !.won = update_won(current_state, throttle),
        !.position_goal_start = update_position_goal_start(current_state, throttle),
        !.position_goal_end = update_position_goal_end(current_state, throttle) ]

\* update panics instead of returning: a sum overflows in the checking build
update_panics(current_state) ==
    /\ overflow_checks
    /\ \/ AddOverflows(current_state.speed, current_state.acceleration)
       \/ AddOverflows(current_state.position, current_state.speed)

(***************************************************************************)
(* The camera                                                              *)
(***************************************************************************)
Camera_new(screen_size, world_size) ==
    [ screen_size |-> screen_size,
      world_size |-> world_size,
      world_position |-> 0 ]

\* The outcome of a call: the i32 returned, or the panic
Returned(v) == [ panicked |-> FALSE, value |-> v, message |-> "" ]

Panicked(m) == [ panicked |-> TRUE, value |-> 0, message |-> m ]

\* Mutant: the quotient rounded toward minus infinity
floor_div(a, b) == a \div b

\* The / of two i32 that does not panic: b # 0 and not I32_MIN / -1
div(a, b) == TruncDiv(a, b)

\* Mutants of project: the expression with `half` in the place of
\* self.world_size / 2, and, with zero_world, a world_size of 0 answered by 0
project_variant(self, world_position, half, zero_world) ==
    LET sum  == wrapping_add(self.world_position, half)
        diff == wrapping_sub(sum, world_position)
        prod == wrapping_mul(self.screen_size, diff)
    IN  IF overflow_checks /\ AddOverflows(self.world_position, half)
        THEN Panicked("attempt to add with overflow")
        ELSE IF overflow_checks /\ SubOverflows(sum, world_position)
        THEN Panicked("attempt to subtract with overflow")
        ELSE IF overflow_checks /\ MulOverflows(self.screen_size, diff)
        THEN Panicked("attempt to multiply with overflow")
        ELSE IF self.world_size = 0
        THEN (IF zero_world THEN Returned(0) ELSE Panicked("attempt to divide by zero"))
        ELSE IF prod = I32_MIN /\ self.world_size = -1
        THEN Panicked("attempt to divide with overflow")
        ELSE Returned(div(prod, self.world_size))

\* Mutant: the offset is the whole world_size, the / 2 forgotten
project_offset_world_size(self, world_position) ==
    project_variant(self, world_position, self.world_size, FALSE)

\* Mutant: the offset of half a world is missing
project_without_offset(self, world_position) ==
    project_variant(self, world_position, 0, FALSE)

\* Mutant: a world_size of 0 is handled silently
project_zero_world_returns_zero(self, world_position) ==
    project_variant(self, world_position, div(self.world_size, 2), TRUE)

\* self.screen_size * (self.world_position + (self.world_size / 2) - world_position)
\*   / self.world_size, evaluated left to right
project(self, world_position) ==
    LET half == div(self.world_size, 2)
        sum  == wrapping_add(self.world_position, half)
        diff == wrapping_sub(sum, world_position)
        prod == wrapping_mul(self.screen_size, diff)
    IN  IF overflow_checks /\ AddOverflows(self.world_position, half)
        THEN Panicked("attempt to add with overflow")
        ELSE IF overflow_checks /\ SubOverflows(sum, world_position)
        THEN Panicked("attempt to subtract with overflow")
        ELSE IF overflow_checks /\ MulOverflows(self.screen_size, diff)
        THEN Panicked("attempt to multiply with overflow")
        ELSE IF self.world_size = 0
        THEN Panicked("attempt to divide by zero")
        ELSE IF prod = I32_MIN /\ self.world_size = -1
        THEN Panicked("attempt to divide with overflow")
        ELSE Returned(div(prod, self.world_size))

(***************************************************************************)
(* The host: it owns one State and one Camera, calls update once per tick  *)
(* and project once per frame.  A panic ends the program.                  *)
(***************************************************************************)
MaxTicks == 3

\* i32 values a field or an argument is drawn from: both ends of the range
\* and the values around zero
I32Vals == {I32_MIN, -1, 0, 1, I32_MAX}

SpeedVals == {-1, 0, 1, I32_MAX}

PositionVals == {I32_MIN, 1, 2, 3, 4, I32_MAX}

\* (position_goal_start, position_goal_end): a window and an inverted one
GoalVals == {<<1, 3>>, <<3, 1>>}

\* The State values a struct literal can build, as the tests build them
Literals ==
    { [ acceleration |-> a, speed |-> s, position |-> p,
        position_goal_start |-> g[1], position_goal_end |-> g[2],
        lost |-> l, won |-> w ] :
      a \in I32Vals, s \in SpeedVals, p \in PositionVals, g \in GoalVals,
      l \in BOOLEAN, w \in BOOLEAN }

Init ==
    /\ state \in Literals \cup {new}
    /\ hist = <<>>
    /\ thr = <<>>
    /\ status = "running"
    /\ overflow_checks \in BOOLEAN
    /\ camera = Camera_new(1000, 10000)
    /\ projected = <<>>

\* One tick: the host passes its state and a throttle to update and keeps the
\* state returned; a panic returns nothing and ends the program
Tick(throttle) ==
    /\ status = "running"
    /\ IF update_panics(state)
       THEN /\ status' = "panicked"
            /\ UNCHANGED <<state, hist, thr>>
       ELSE /\ state' = update(state, throttle)
            /\ hist' = Append(hist, state)
            /\ thr' = Append(thr, throttle)
            /\ UNCHANGED status
    /\ UNCHANGED <<overflow_checks, camera, projected>>

\* A tick of a run that starts at any state, runs of MaxTicks ticks
Update(throttle) ==
    /\ Len(hist) < MaxTicks
    /\ Tick(throttle)

Next == \E throttle \in I32Vals : Update(throttle)

Spec == Init /\ [][Next]_vars

(***************************************************************************)
(* A game: the host builds its state with State::new() and calls update    *)
(* once per tick with the throttle the player chose.                       *)
(***************************************************************************)
MaxGameTicks == 5

\* Throttles of a game: both ends of the i32 range, small ones, one that
\* carries the vehicle from 500 into the goal window (9000, 10000) in one
\* tick of motion and one that carries it beyond
GameThrottles == {I32_MIN, -8501, -1, 0, 1, 8501, 10000, I32_MAX}

InitGame ==
    /\ state = new
    /\ hist = <<>>
    /\ thr = <<>>
    /\ status = "running"
    /\ overflow_checks \in BOOLEAN
    /\ camera = Camera_new(1000, 10000)
    /\ projected = <<>>

UpdateGame(throttle) ==
    /\ Len(hist) < MaxGameTicks
    /\ Tick(throttle)

NextGame == \E throttle \in GameThrottles : UpdateGame(throttle)

SpecGame == InitGame /\ [][NextGame]_vars

(***************************************************************************)
(* Properties of update.  hist and thr record every call that returned:    *)
(* call i took Pre(i) and thr[i] and returned Post(i).                     *)
(***************************************************************************)
Calls == 1..Len(hist)

Pre(i) == hist[i]

Post(i) == IF i < Len(hist) THEN hist[i + 1] ELSE state

Max0(x) == IF x < 0 THEN 0 ELSE x

\* The sum of a and b over the integers lies above / below / inside the i32 range
SumAbove(a, b) == b > 0 /\ a > I32_MAX - b

SumBelow(a, b) == b < 0 /\ a < I32_MIN - b

SumFits(a, b) == ~SumAbove(a, b) /\ ~SumBelow(a, b)

\* The i32 congruent modulo 2^32 to the sum of a and b over the integers
Mod32Sum(a, b) ==
    IF SumAbove(a, b) THEN I32_MIN + ((a - I32_MAX) + (b - 1))
    ELSE IF SumBelow(a, b) THEN I32_MAX + ((a - I32_MIN) + (b + 1))
    ELSE a + b

\* r is the sum of a and b over the integers
IsSum(a, b, r) == SumFits(a, b) /\ r = a + b

\* r is max(0, a + b) over the integers: a sum above the range has no i32 equal
\* to it, a sum below the range gives 0
IsMax0Sum(a, b, r) ==
    IF SumAbove(a, b) THEN FALSE
    ELSE IF SumBelow(a, b) THEN r = 0
    ELSE r = Max0(a + b)

\* The condition under which update sets won, on the state s
InsideStopped(s) ==
    s.speed = 0 /\ s.position_goal_start < s.position /\ s.position < s.position_goal_end

\* C1 as stated: every call returns speed' = max(0, speed + acceleration), the
\* sum taken over the integers, for every pre-tick state.
C1_SpeedIsMax0OfExactSum ==
    \A i \in Calls :
        IsMax0Sum(Pre(i).speed, Pre(i).acceleration, Post(i).speed)

\* C1 amended: every call that returns gives speed' = max(0, speed +
\* acceleration) when that sum fits in an i32; when it does not, only the
\* wrapping build returns, with speed' = max(0, the sum reduced modulo 2^32).
\* Either way speed' is a function of the pre-tick state, not of the throttle.
C1_SpeedIsMax0OfI32Sum ==
    \A i \in Calls :
        LET a == Pre(i).speed
            b == Pre(i).acceleration
        IN  IF SumFits(a, b)
            THEN Post(i).speed = Max0(a + b)
            ELSE ~overflow_checks /\ Post(i).speed = Max0(Mod32Sum(a, b))

\* A call on {acceleration: 1, speed: 0} with throttle 0 has returned speed 1
C1_Witness ==
    \E i \in Calls :
        /\ Pre(i).acceleration = 1 /\ Pre(i).speed = 0 /\ thr[i] = 0
        /\ Post(i).speed = 1

\* C2 as stated: every call returns position' = position + speed, the sum
\* taken over the integers, for every pre-tick state.
C2_PositionIsExactSum ==
    \A i \in Calls :
        IsSum(Pre(i).position, Pre(i).speed, Post(i).position)

\* C2 amended: every call that returns gives position' = position + speed (the
\* pre-tick speed) when that sum fits in an i32; when it does not, only the
\* wrapping build returns, with position' the sum reduced modulo 2^32.  Either
\* way position' does not depend on the throttle or on the acceleration.
C2_PositionIsI32Sum ==
    \A i \in Calls :
        LET a == Pre(i).position
            b == Pre(i).speed
        IN  IF SumFits(a, b)
            THEN Post(i).position = a + b
            ELSE ~overflow_checks /\ Post(i).position = Mod32Sum(a, b)

\* A call on {speed: 1, position: 1} with a non-zero acceleration (so that the
\* new speed is not the old one) and a non-zero throttle has returned position 2
C2_Witness ==
    \E i \in Calls :
        /\ Pre(i).speed = 1 /\ Pre(i).position = 1
        /\ Pre(i).acceleration = 1 /\ thr[i] = -1
        /\ Post(i).speed = 2
        /\ Post(i).position = 2

\* C3: every state update returns has speed >= 0, whatever the throttles and
\* the state the sequence started from, also when speed + acceleration leaves
\* the i32 range and wraps.
C3_SpeedNeverNegative ==
    \A i \in Calls : Post(i).speed >= 0

\* A call whose sum speed + acceleration lies above the i32 range has returned
\* (the sum wrapped to a negative value, clamped to 0), and so has one whose
\* pre-tick acceleration was negative
C3_Witness ==
    /\ \E i \in Calls :
          /\ SumAbove(Pre(i).speed, Pre(i).acceleration)
          /\ Post(i).speed = 0
    /\ \E i \in Calls :
          /\ Pre(i).acceleration < 0 /\ SumFits(Pre(i).speed, Pre(i).acceleration)
          /\ Post(i).speed = 0

\* C4: update returns lost' = TRUE exactly when the pre-tick position is
\* strictly greater than the pre-tick goal end; the new position and the
\* pre-tick lost flag play no part.
C4_LostIffPreTickBeyondGoalEnd ==
    \A i \in Calls :
        Post(i).lost <=> (Pre(i).position > Pre(i).position_goal_end)

\* A call on a state with lost = TRUE has returned a state whose position is
\* beyond the goal end and whose lost flag is FALSE
C4_Witness ==
    \E i \in Calls :
        /\ Pre(i).lost
        /\ Post(i).position > Post(i).position_goal_end
        /\ ~Post(i).lost

\* C5: update returns won' = TRUE exactly when the pre-tick speed is 0 and the
\* pre-tick position lies strictly between goal start and goal end.
C5_WonIffStoppedStrictlyInside ==
    \A i \in Calls :
        Post(i).won <=>
            /\ Pre(i).speed = 0
            /\ Pre(i).position_goal_start < Pre(i).position
            /\ Pre(i).position < Pre(i).position_goal_end

\* Within one run: a stopped vehicle strictly inside the window was won, and a
\* later call on a stopped vehicle exactly at the goal end was not won
C5_Witness ==
    /\ \E i \in Calls :
          /\ Pre(i).speed = 0
          /\ Pre(i).position_goal_start < Pre(i).position
          /\ Pre(i).position < Pre(i).position_goal_end
          /\ Post(i).won
    /\ \E i \in Calls :
          /\ Pre(i).speed = 0
          /\ Pre(i).position_goal_start < Pre(i).position_goal_end
          /\ Pre(i).position = Pre(i).position_goal_end
          /\ ~Post(i).won

\* C6: update returns acceleration' equal to the throttle argument, with no
\* accumulation and no clamping.
C6_AccelerationIsThrottle ==
    \A i \in Calls : Post(i).acceleration = thr[i]

\* A call on a state with acceleration 1 and throttle i32::MAX has returned
\* acceleration i32::MAX
C6_Witness ==
    \E i \in Calls :
        /\ Pre(i).acceleration = 1 /\ thr[i] = I32_MAX
        /\ Post(i).acceleration = I32_MAX

\* C7: update leaves goal start and goal end unchanged, so that every state of
\* a run that started at State::new() has the window (9000, 10000).
C7_GoalWindowUnchanged ==
    /\ \A i \in Calls :
          /\ Post(i).position_goal_start = Pre(i).position_goal_start
          /\ Post(i).position_goal_end = Pre(i).position_goal_end
    /\ (hist # <<>> /\ hist[1] = new) =>
          /\ state.position_goal_start = 9000
          /\ state.position_goal_end = 10000

\* Two calls or more after State::new(), the vehicle has moved and the window
\* is still (9000, 10000)
C7_Witness ==
    /\ Len(hist) >= 2 /\ hist[1] = new
    /\ state.position # new.position
    /\ state.position_goal_start = 9000 /\ state.position_goal_end = 10000

\* C8: won and lost are not sticky: a call on a state whose flag is TRUE and
\* whose pre-tick condition does not hold returns the flag FALSE.
C8_FlagsNotSticky ==
    \A i \in Calls :
        /\ (Pre(i).won /\ ~InsideStopped(Pre(i))) => ~Post(i).won
        /\ (Pre(i).lost /\ ~(Pre(i).position > Pre(i).position_goal_end))
              => ~Post(i).lost

\* A state returned with won = TRUE, passed to update, has come back with
\* won = FALSE
C8_Witness ==
    \E i \in Calls :
        /\ i >= 2
        /\ Pre(i).won /\ InsideStopped(Pre(i - 1))
        /\ ~Post(i).won

\* The first calls of the windows of three consecutive calls
\* s0 -update(t1)-> s1 -update(t2)-> s2 -update(t3)-> s3 of the run
Windows == { i \in Calls : i + 2 <= Len(hist) }

\* In the window at i, t1 has no effect on s1.speed, s1.position or
\* s2.position: any other throttle in its place gives the same three values
NoEffectBeforeItsLag(i) ==
    \A t \in I32Vals :
        /\ update(Pre(i), t).speed = Pre(i + 1).speed
        /\ update(Pre(i), t).position = Pre(i + 1).position
        /\ update(update(Pre(i), t), thr[i + 1]).position = Pre(i + 2).position

\* C9 as stated: over any three consecutive calls, t1 has no effect on s1.speed,
\* s1.position or s2.position, s2.speed = max(0, s1.speed + t1) and s3.position
\* = s2.position + s2.speed, the sums taken over the integers.
C9_LagWithExactSums ==
    \A i \in Windows :
        /\ NoEffectBeforeItsLag(i)
        /\ IsMax0Sum(Pre(i + 1).speed, thr[i], Pre(i + 2).speed)
        /\ IsSum(Pre(i + 2).position, Pre(i + 2).speed, Post(i + 2).position)

\* C9 amended: over any three consecutive calls that return, t1 has no effect
\* on s1.speed, s1.position or s2.position; s2.speed = max(0, s1.speed + t1) and
\* s3.position = s2.position + s2.speed when the sum fits in an i32, and when it
\* does not, only the wrapping build returns, with the sum reduced modulo 2^32.
C9_LagWithI32Sums ==
    \A i \in Windows :
        /\ NoEffectBeforeItsLag(i)
        /\ IF SumFits(Pre(i + 1).speed, thr[i])
           THEN Pre(i + 2).speed = Max0(Pre(i + 1).speed + thr[i])
           ELSE /\ ~overflow_checks
                /\ Pre(i + 2).speed = Max0(Mod32Sum(Pre(i + 1).speed, thr[i]))
        /\ IF SumFits(Pre(i + 2).position, Pre(i + 2).speed)
           THEN Post(i + 2).position = Pre(i + 2).position + Pre(i + 2).speed
           ELSE /\ ~overflow_checks
                /\ Post(i + 2).position
                      = Mod32Sum(Pre(i + 2).position, Pre(i + 2).speed)

\* Three calls from a vehicle at rest at position 1 with t1 = 1: s1 is still at
\* rest at 1, s2 has speed 1 and is still at 1, s3 is at 2
C9_Witness ==
    \E i \in Windows :
        /\ Pre(i).speed = 0 /\ Pre(i).acceleration = 0 /\ Pre(i).position = 1
        /\ thr[i] = 1
        /\ Pre(i + 1).speed = 0 /\ Pre(i + 1).position = 1
        /\ Pre(i + 2).speed = 1 /\ Pre(i + 2).position = 1
        /\ Post(i + 2).position = 2

(***************************************************************************)
(* The camera alone: the host builds a Camera, moves it by writing its     *)
(* public world_position and projects world coordinates.                   *)
(***************************************************************************)
ScreenSizes == {-3, 0, 1, 3, 1000, I32_MAX}

WorldSizes == {I32_MIN, -3, -1, 0, 2, 1000, 10000, I32_MAX}

CameraPositions == {I32_MIN, 0, 500, 1000, 5000, 3000000, I32_MAX}

Targets == {I32_MIN, -1, 0, 2, 100, 1000, I32_MAX}

InitCamera ==
    /\ state = new
    /\ hist = <<>>
    /\ thr = <<>>
    /\ status = "running"
    /\ overflow_checks \in BOOLEAN
    /\ \E screen_size \in ScreenSizes, world_size \in WorldSizes :
          camera = Camera_new(screen_size, world_size)
    /\ projected = <<>>

\* The host writes the camera's public field world_position
SetWorldPosition(world_position) ==
    /\ status = "running"
    /\ camera' = [camera EXCEPT !.world_position = world_position]
    /\ UNCHANGED <<state, hist, thr, status, overflow_checks, projected>>

\* The host calls camera.project(world_position); a panic ends the program
Project(world_position) ==
    /\ status = "running"
    /\ LET outcome == project(camera, world_position)
       IN  /\ projected' = << [ self |-> camera,
                                world_position |-> world_position,
                                outcome |-> outcome ] >>
           /\ status' = IF outcome.panicked THEN "panicked" ELSE "running"
    /\ UNCHANGED <<state, hist, thr, overflow_checks, camera>>

NextCamera ==
    \/ \E world_position \in CameraPositions : SetWorldPosition(world_position)
    \/ \E world_position \in Targets : Project(world_position)

SpecCamera == InitCamera /\ [][NextCamera]_vars

(***************************************************************************)
(* Properties of project.  The arithmetic of the statements is that of the *)
(* integers, written so that no value computed leaves the i32 range.       *)
(***************************************************************************)
Abs(x) == IF x < 0 THEN -x ELSE x

\* The quotient of the integers a and b truncated toward zero, for b # 0 and
\* not (a = I32_MIN and b = -1), by sign and magnitude
Quot(a, b) ==
    IF b = I32_MIN THEN (IF a = I32_MIN THEN 1 ELSE 0)
    ELSE IF a = I32_MIN
    THEN LET rest == ((I32_MAX - Abs(b)) + 1) \div Abs(b)
         IN  IF b > 0 THEN -1 - rest ELSE 1 + rest
    ELSE LET mag == Abs(a) \div Abs(b)
         IN  IF (a < 0) = (b < 0) THEN mag ELSE -mag

\* a - b over the integers fits in an i32
DiffFits(a, b) ==
    /\ b > 0 => a >= I32_MIN + b
    /\ b < 0 => a <= I32_MAX + b

\* a * b over the integers fits in an i32
ProductFits(a, b) ==
    IF a = 0 \/ b = 0 THEN TRUE
    ELSE IF a = I32_MIN THEN b = 1
    ELSE IF b = I32_MIN THEN a = 1
    ELSE IF (a < 0) = (b < 0)
    THEN Abs(a) <= I32_MAX \div Abs(b)
    ELSE Abs(a) - 1 <= (I32_MAX - (Abs(b) - 1)) \div Abs(b)

\* c + h - w over the integers, from the quarters of the three (x = 4 * (x \div 4)
\* + x % 4): OffsetQuarters is its floor quarter, OffsetRest what is left
OffsetQuarters(c, h, w) ==
    ((c \div 4) + (h \div 4) - (w \div 4)) + (((c % 4) + (h % 4) - (w % 4)) \div 4)

OffsetRest(c, h, w) == ((c % 4) + (h % 4) - (w % 4)) % 4

OffsetFits(c, h, w) ==
    /\ OffsetQuarters(c, h, w) >= I32_MIN \div 4
    /\ OffsetQuarters(c, h, w) <= I32_MAX \div 4

Offset(c, h, w) == 4 * OffsetQuarters(c, h, w) + OffsetRest(c, h, w)

\* The call recorded in projected, when there is one
Called == projected # <<>>

Call == projected[1]

\* world_size / 2, truncated toward zero
HalfWorld == Quot(Call.self.world_size, 2)

\* The numerator screen_size * (camera.world_position + world_size/2 -
\* world_position) over the integers fits in an i32: screen_size is 0, or the
\* offset fits and so does its product with screen_size
NumeratorFits ==
    \/ Call.self.screen_size = 0
    \/ /\ OffsetFits(Call.self.world_position, HalfWorld, Call.world_position)
       /\ ProductFits(Call.self.screen_size,
                      Offset(Call.self.world_position, HalfWorld, Call.world_position))

Numerator ==
    IF Call.self.screen_size = 0 THEN 0
    ELSE Call.self.screen_size
            * Offset(Call.self.world_position, HalfWorld, Call.world_position)

\* Each of the three intermediate results of the code's expression fits
StepsFit ==
    /\ SumFits(Call.self.world_position, HalfWorld)
    /\ DiffFits(Call.self.world_position + HalfWorld, Call.world_position)
    /\ ProductFits(Call.self.screen_size,
                   (Call.self.world_position + HalfWorld) - Call.world_position)

\* The numerator as the wrapping build computes it: reduced modulo 2^32
Numerator32 ==
    wrapping_mul(Call.self.screen_size,
                 wrapping_sub(wrapping_add(Call.self.world_position, HalfWorld),
                              Call.world_position))

\* C10 as stated: for every camera with world_size # 0 and every target, what
\* project returns is the numerator over the integers divided by world_size,
\* both divisions truncating toward zero.  (A numerator outside the i32 range
\* differs from the 32-bit one by a multiple of 2^32, and the two quotients by
\* 2 or more: then no returned value is the stated one.)
C10_ProjectIsExactQuotient ==
    (Called /\ ~Call.outcome.panicked /\ Call.self.world_size # 0) =>
        /\ NumeratorFits
        /\ Call.outcome.value = Quot(Numerator, Call.self.world_size)

\* C10 amended: for every camera with world_size # 0 and every target, project
\* returns the numerator divided by world_size, both divisions truncating toward
\* zero (not floor), whenever the numerator fits in an i32; this covers (1000,
\* 1000, cam 500, target 100) -> 900 and (1000, 10000, cam 5000, target 1000) ->
\* 900.  In general what it returns is the truncated quotient of the numerator
\* reduced modulo 2^32, and it panics instead of returning exactly when the build
\* checks overflow and an intermediate result does not fit, or the 32-bit
\* numerator is i32::MIN and world_size is -1.
C10_ProjectIsI32Quotient ==
    (Called /\ Call.self.world_size # 0) =>
        /\ Call.outcome.panicked <=>
              \/ overflow_checks /\ ~StepsFit
              \/ Numerator32 = I32_MIN /\ Call.self.world_size = -1
        /\ ~Call.outcome.panicked =>
              /\ Call.outcome.value = Quot(Numerator32, Call.self.world_size)
              /\ NumeratorFits =>
                    Call.outcome.value = Quot(Numerator, Call.self.world_size)
        /\ (Call.self = [screen_size |-> 1000, world_size |-> 1000,
                         world_position |-> 500] /\ Call.world_position = 100)
              => Call.outcome = Returned(900)
        /\ (Call.self = [screen_size |-> 1000, world_size |-> 10000,
                         world_position |-> 5000] /\ Call.world_position = 1000)
              => Call.outcome = Returned(900)

\* project has returned -1 for the numerator 3 * (0 + 2/2 - 2) = -3 and
\* world_size 2, where the floor of -3/2 is -2
C10_Witness ==
    /\ Called
    /\ Call.self = [screen_size |-> 3, world_size |-> 2, world_position |-> 0]
    /\ Call.world_position = 2
    /\ Call.outcome = Returned(-1)

\* C11 as stated: for every camera with world_size # 0, projecting the
\* camera's own world_position returns screen_size / 2, truncated.
C11_OwnPositionIsHalfScreen ==
    (/\ Called /\ ~Call.outcome.panicked /\ Call.self.world_size # 0
     /\ Call.world_position = Call.self.world_position)
        => Call.outcome.value = Quot(Call.self.screen_size, 2)

\* C11 amended: for every camera whose world_size is even and not 0 and whose
\* product screen_size * (world_size / 2) fits in an i32, projecting the
\* camera's own world_position returns screen_size / 2, truncated; the call
\* returns unless the build checks overflow and camera.world_position +
\* world_size / 2 does not fit.  (For an odd world_size the result is
\* screen_size * (world_size / 2) / world_size, the half taken first.)
C11_OwnPositionIsHalfScreenForEvenWorld ==
    (/\ Called /\ Call.self.world_size # 0
     /\ Call.world_position = Call.self.world_position
     /\ Call.self.world_size % 2 = 0
     /\ ProductFits(Call.self.screen_size, HalfWorld))
        => /\ Call.outcome.panicked <=>
                 (overflow_checks /\ ~SumFits(Call.self.world_position, HalfWorld))
           /\ ~Call.outcome.panicked =>
                 Call.outcome.value = Quot(Call.self.screen_size, 2)

\* The camera (1000, 10000) at 1000 has projected its own position 1000 to 500
C11_Witness ==
    /\ Called
    /\ Call.self = [screen_size |-> 1000, world_size |-> 10000,
                    world_position |-> 1000]
    /\ Call.world_position = 1000
    /\ Call.outcome = Returned(500)

\* C12: for every camera with world_size # 0 and every screen_size, projecting
\* the target camera.world_position + world_size / 2 (the sum as an integer,
\* the division truncating) returns 0, in both builds.
C12_HalfWorldAheadIsZero ==
    (/\ Called /\ Call.self.world_size # 0
     /\ SumFits(Call.self.world_position, HalfWorld)
     /\ Call.world_position = Call.self.world_position + HalfWorld)
        => Call.outcome = Returned(0)

\* Cameras at 500 over a world of 1000 and at 0 over a world of -3 have
\* projected the targets 1000 and -1 to 0
C12_Witness ==
    /\ Called
    /\ Call.outcome = Returned(0)
    /\ \/ /\ Call.self.world_size = 1000 /\ Call.self.world_position = 500
          /\ Call.world_position = 1000 /\ Call.self.screen_size # 0
       \/ /\ Call.self.world_size = -3 /\ Call.self.world_position = 0
          /\ Call.world_position = -1 /\ Call.self.screen_size # 0

\* C13 as stated: with world_size = 0 every call fails with the
\* division-by-zero error, whatever the target and the screen_size.
C13_ZeroWorldDividesByZero ==
    (Called /\ Call.self.world_size = 0)
        => Call.outcome = Panicked("attempt to divide by zero")

\* C13 amended: with world_size = 0 no call returns a screen coordinate, for
\* every target and every screen_size; the failure is the division by zero
\* unless the build checks overflow and camera.world_position - world_position
\* or screen_size times that difference does not fit, which fails first with
\* an overflow error.
C13_ZeroWorldNeverReturns ==
    (Called /\ Call.self.world_size = 0)
        => /\ Call.outcome.panicked
           /\ status = "panicked"
           /\ Call.outcome.message # "attempt to divide by zero"
                 <=> /\ overflow_checks
                     /\ \/ ~DiffFits(Call.self.world_position, Call.world_position)
                        \/ ~ProductFits(Call.self.screen_size,
                                        Call.self.world_position - Call.world_position)

\* A camera of world_size 0 has been asked to project, with a screen_size and
\* a distance to the target that are not 0
C13_Witness ==
    /\ Called
    /\ Call.self.world_size = 0
    /\ Call.self.screen_size = 1000
    /\ Call.self.world_position # Call.world_position
    /\ Call.outcome = Panicked("attempt to divide by zero")

(***************************************************************************)
(* Properties of a game: State::new() followed by update calls.            *)
(***************************************************************************)
\* The state the run started from
First == IF hist = <<>> THEN state ELSE hist[1]

\* No sum of calls 1..i left the i32 range
NoOverflowUpTo(i) ==
    \A j \in 1..i :
        /\ SumFits(Pre(j).speed, Pre(j).acceleration)
        /\ SumFits(Pre(j).position, Pre(j).speed)

\* C14: State::new() has position_goal_start 9000, position_goal_end 10000,
\* position 500, acceleration 0, speed 0, won false and lost false.
C14_NewState ==
    First = [ acceleration |-> 0, speed |-> 0, position |-> 500,
              position_goal_start |-> 9000, position_goal_end |-> 10000,
              lost |-> FALSE, won |-> FALSE ]

\* A game has been constructed, at position 500 before a goal window that is
\* not the default one, and no tick has been made
C14_Witness ==
    /\ hist = <<>>
    /\ state.position = 500
    /\ state.position_goal_start = 9000
    /\ state.position_goal_end = 10000

\* C15: from State::new(), under any throttles, as long as no sum overflows
\* 32 bits, no call returns a position below the pre-tick position.
C15_PositionNeverDecreases ==
    \A i \in Calls :
        NoOverflowUpTo(i) => Post(i).position >= Pre(i).position

\* A game without overflow in which the vehicle has moved forward and has
\* braked (negative acceleration) while moving
C15_Witness ==
    /\ hist # <<>>
    /\ NoOverflowUpTo(Len(hist))
    /\ \E i \in Calls : Post(i).position > Pre(i).position
    /\ \E i \in Calls : Pre(i).acceleration < 0 /\ Pre(i).speed > 0

\* C16: from State::new(), as long as no sum overflows 32 bits, once a
\* returned state has lost = true every later returned state has lost = true.
C16_LostIsPermanent ==
    \A i \in Calls : \A j \in Calls :
        (i <= j /\ NoOverflowUpTo(j) /\ Post(i).lost) => Post(j).lost

\* A game without overflow that was lost and went on, the vehicle braking
C16_Witness ==
    /\ hist # <<>>
    /\ NoOverflowUpTo(Len(hist))
    /\ \E i \in Calls : \E j \in Calls :
          /\ i < j /\ Post(i).lost /\ Post(j).lost
          /\ Pre(j).acceleration < 0

\* C17: from State::new(), as long as no sum overflows 32 bits, once a
\* returned state has lost = true no later returned state has won = true.
C17_NoWinAfterLoss ==
    \A i \in Calls : \A j \in Calls :
        (i <= j /\ NoOverflowUpTo(j) /\ Post(i).lost) => ~Post(j).won

\* A game without overflow that was lost, after which the vehicle was stopped
\* at a tick: the stop beyond the goal window did not win
C17_Witness ==
    /\ hist # <<>>
    /\ NoOverflowUpTo(Len(hist))
    /\ \E i \in Calls : \E j \in Calls :
          /\ i <= j /\ Post(i).lost
          /\ Pre(j).speed = 0 /\ ~Post(j).won

\* C18: no state returned by update has won and lost both true, for every
\* pre-tick state (goal windows with start > end included) and every throttle;
\* the state of State::new() has both false.
C18_WonAndLostExclusive ==
    /\ ~new.won /\ ~new.lost
    /\ \A i \in Calls : ~(Post(i).won /\ Post(i).lost)

\* update has returned lost for a stopped vehicle between the ends of an
\* inverted goal window (end < position < start)
C18_Witness ==
    \E i \in Calls :
        /\ Pre(i).position_goal_start > Pre(i).position_goal_end
        /\ Pre(i).speed = 0
        /\ Pre(i).position > Pre(i).position_goal_end
        /\ Pre(i).position < Pre(i).position_goal_start
        /\ Post(i).lost /\ ~Post(i).won

\* C19: every returned state with won = true has its position strictly inside
\* its goal window: position_goal_start < position < position_goal_end.
C19_WonStateIsInsideWindow ==
    \A i \in Calls :
        Post(i).won =>
            /\ Post(i).position_goal_start < Post(i).position
            /\ Post(i).position < Post(i).position_goal_end
            /\ Post(i).position = Pre(i).position

\* update has returned a state with won = true whose speed is already not 0
C19_Witness ==
    \E i \in Calls :
        /\ Post(i).won
        /\ Post(i).speed # 0
        /\ Pre(i).speed = 0

\* C20: the game is winnable.  From State::new() the throttles 8501, -8501
\* followed by any two throttles make the fourth call return won = true and
\* lost = false, in both builds.
C20_ThrottlesThatWin ==
    (/\ Len(hist) >= 4
     /\ hist[1] = new
     /\ thr[1] = 8501 /\ thr[2] = -8501)
        => Post(4).won /\ ~Post(4).lost

\* A game that started at State::new() has reached won = true and lost = false
C20_Witness ==
    /\ hist # <<>>
    /\ hist[1] = new
    /\ state.won /\ ~state.lost
    /\ state.position = 9001

====
